---- MODULE Spec2Model ----
(***************************************************************************)
(* The Go board of clockgo (src/src/board.rs): grid, group table, history, *)
(* dead-stone counters and ko point, with play / pass / undo / clear /     *)
(* resize translated from the code.                                        *)
(*                                                                         *)
(* A panic of the program (unreachable!(), unwrap() of None, indexing a    *)
(* missing key of the SmallIntMap) is modelled by the flag `fault`: the    *)
(* call that panics sets it and the program makes no further step.         *)
(*                                                                         *)
(* Group::absorb removes from a TreeSet while it iterates over it; what    *)
(* the iterator reaches after the first removal is left open: every call   *)
(* that fuses groups is taken once for each set of points it may miss.     *)
(*                                                                         *)
(* play does not compare its coordinates with the size: a stone can be put *)
(* on any point of the 25 x 25 array, also beyond the size of the board.   *)
(***************************************************************************)
EXTENDS Integers, Naturals, Sequences, FiniteSets, TLC

\* ---------------------------------------------------------------- bounds
\* The grid is modelled on the corner 1..AreaX x 1..AreaY of the board,
\* where every stone is put; no call lets a dead-stone counter pass MaxDead.
\* Spec: any colour on any point of the corner with x <= FreeX, pass and
\* undo, on the board as constructed, with at most MaxHist moves in the
\* history, MaxPass of them passes, and MaxUndo calls of undo.
\* Game: a session that may set the board size to SmallSize before the
\* first move and in which the colours alternate on the points of the
\* corner (also those beyond the size set), with at most MaxGameHist moves
\* in the history and MaxGameUndo calls of undo.
\* Session: any colour on the same points as Spec, pass, clear and resize
\* (to SmallSize or to a size out of range) in any order, with at most
\* MaxSessionHist moves in the history, MaxPass of them passes.
\* Bot: a board resized to SmallSize before the first move, then play with
\* any colour on the points with x <= FreeX, genmove with any colour and
\* undo, with at most MaxBotHist moves in the history and MaxBotUndo calls
\* of undo; the random generator gives one point for its first try and
\* another for the rest.
AreaX == 3
AreaY == 2
FreeX == 2
MaxDead == 2
MaxHist == 4
MaxPass == 1
MaxUndo == 2
SmallSize == 2
MaxGameHist == 7
MaxGameUndo == 1
MaxSessionHist == 3
MaxBotHist == 3
MaxBotUndo == 1

\* ------------------------------------------------------ program constants
board_maxsize == 25
DefaultSize == 19
MaxTries == 10

Black == "Black"
White == "White"
Colour == {Black, White}

\* Intersection: Empty | Stone(Colour, gid)
Empty == [kind |-> "Empty", col |-> "None", gid |-> 0]
Stone(c, id) == [kind |-> "Stone", col |-> c, gid |-> id]

\* Vertex: Put(x, y) | Pass
Pass == [kind |-> "Pass", x |-> 0, y |-> 0]
Put(x, y) == [kind |-> "Put", x |-> x, y |-> y]

\* struct Move
Move(player, vertex, removed) == [player |-> player, move |-> vertex, removed |-> removed]

Cells == (1..AreaX) \X (1..AreaY)

\* Order of TreeSet<(uint, uint)>: tuples compare lexicographically.
Less(p, q) == p[1] < q[1] \/ (p[1] = q[1] /\ p[2] < q[2])
\* TreeSet::iter().next(): the least element.
first(S) == CHOOSE p \in S : \A q \in S : p = q \/ Less(p, q)

\* ------------------------------------------------------------------ Group
Group_new == [stones |-> {}, liberties |-> {}]
is_dead(g) == g.liberties = {}
add_stone(g, p) == [stones |-> g.stones \cup {p}, liberties |-> g.liberties \ {p}]
add_liberty(g, p) == [g EXCEPT !.liberties = @ \cup {p}]
Group_remove_liberty(g, p) == [g EXCEPT !.liberties = @ \ {p}]
stone_count(g) == Cardinality(g.stones)
liberty_count(g) == Cardinality(g.liberties)
\* absorb: both sets are extended (lines 52-53), then the loop of lines
\* 54-56 removes from self.liberties while it iterates over the intersection
\* of self.liberties with self.stones. The first common point is read from
\* the tree as it was and is always removed; every later step of the
\* iterator walks a tree that remove() has rebalanced under it, so a later
\* common point may be reached and removed or not. skip is the set of points
\* the iterator does not reach after its first step.
Common(g, other) ==
    (g.liberties \cup other.liberties) \cap (g.stones \cup other.stones)
\* The common points whose removal depends on the iterator.
Later(g, other) ==
    IF Common(g, other) = {} THEN {}
    ELSE Common(g, other) \ {first(Common(g, other))}
absorb(g, other, skip) ==
    [stones |-> g.stones \cup other.stones,
     liberties |-> (g.liberties \cup other.liberties)
                       \ (Common(g, other) \ (Later(g, other) \cap skip))]

\* ------------------------------------------------------------------ Board
\* A board value: the fields of struct Board, plus the panic flag, the
\* points the iterator of absorb does not reach during the call (skip) and
\* the points on which that mattered (torn).
Board_new ==
    [stones |-> [p \in Cells |-> Empty],
     history |-> <<>>,
     groups |-> [k \in {} |-> Group_new],
     size |-> DefaultSize,
     white_dead |-> 0,
     black_dead |-> 0,
     current_ko |-> <<0, 0>>,
     fault |-> FALSE,
     skip |-> {},
     torn |-> {}]

\* self.stones[x-1][y-1]: cells outside the corner are never written.
At(b, p) == IF p \in DOMAIN b.stones THEN b.stones[p] ELSE Empty
SetAt(b, p, v) == [b EXCEPT !.stones[p] = v]
Panic(b) == [b EXCEPT !.fault = TRUE]
HasGroup(b, id) == id \in DOMAIN b.groups
\* SmallIntMap::pop / remove
WithoutKey(g, id) == [k \in DOMAIN g \ {id} |-> g[k]]
\* SmallIntMap::insert
WithKey(g, id, v) == [k \in DOMAIN g \cup {id} |-> IF k = id THEN v ELSE g[k]]

get_current_ko(b) == IF b.current_ko = <<0, 0>> THEN <<>> ELSE <<b.current_ko>>

\* The neighbours in the order the callback is invoked.
loop_over_neighbours(p, size) ==
    (IF p[1] > 1 THEN << <<p[1] - 1, p[2]>> >> ELSE <<>>) \o
    (IF p[2] > 1 THEN << <<p[1], p[2] - 1>> >> ELSE <<>>) \o
    (IF p[1] < size THEN << <<p[1] + 1, p[2]>> >> ELSE <<>>) \o
    (IF p[2] < size THEN << <<p[1], p[2] + 1>> >> ELSE <<>>)

RECURSIVE next_gid_loop(_, _)
next_gid_loop(keys, last) ==
    IF keys = {} THEN last + 1
    ELSE LET i == CHOOSE k \in keys : \A j \in keys : k <= j
         IN  IF i > last + 1 THEN last + 1 ELSE next_gid_loop(keys \ {i}, i)

next_gid(b) ==
    IF DOMAIN b.groups = {} THEN 0 ELSE next_gid_loop(DOMAIN b.groups, 0)

\* ------------------------------------------------- Board::remove_liberty
\* The callback of lines 344-351 on the neighbours ns of a vacated stone:
\* a neighbouring stone of another group id gets add_liberty(a, b), with
\* (a, b) the neighbour's own coordinate.
RECURSIVE give_liberties(_, _, _)
give_liberties(b, ns, gid) ==
    IF b.fault \/ ns = <<>> THEN b
    ELSE LET n == Head(ns)
             s == At(b, n)
         IN  IF s.kind = "Stone" /\ s.gid # gid
             THEN IF HasGroup(b, s.gid)
                  THEN give_liberties(
                           [b EXCEPT !.groups[s.gid] = add_liberty(@, n)],
                           Tail(ns), gid)
                  ELSE Panic(b)
             ELSE give_liberties(b, Tail(ns), gid)

\* The loop of lines 342-352 over the stones of the dead group, in order.
RECURSIVE take_stones(_, _, _)
take_stones(b, todo, gid) ==
    IF b.fault \/ todo = {} THEN b
    ELSE take_stones(
             give_liberties(SetAt(b, first(todo), Empty),
                            loop_over_neighbours(first(todo), b.size), gid),
             todo \ {first(todo)}, gid)

\* Lines 339-356, after the liberty is removed from group gid: a dead group
\* leaves the table and the grid and is returned.
pop_dead(b, gid) ==
    IF is_dead(b.groups[gid])
    THEN [b |-> take_stones([b EXCEPT !.groups = WithoutKey(@, gid)],
                            b.groups[gid].stones, gid),
          grp |-> <<b.groups[gid]>>]
    ELSE [b |-> b, grp |-> <<>>]

\* remove_liberty(x, y, kx, ky) with p = (x, y), k = (kx, ky): the board
\* after the call and the Option<Group> returned (a sequence of 0 or 1).
remove_liberty(b, p, k) ==
    LET s == At(b, p)
    IN  IF s.kind = "Empty" THEN [b |-> b, grp |-> <<>>]
        ELSE IF ~HasGroup(b, s.gid) THEN [b |-> Panic(b), grp |-> <<>>]
        ELSE pop_dead([b EXCEPT !.groups[s.gid] = Group_remove_liberty(@, k)],
                      s.gid)

\* ----------------------------------------------------- Board::fuse_groups
\* The relabelling loop of lines 373-378 over the stones of gid2.
RECURSIVE relabel(_, _, _)
relabel(b, todo, gid1) ==
    IF b.fault \/ todo = {} THEN b
    ELSE LET s == At(b, first(todo))
         IN  IF s.kind = "Stone"
             THEN relabel(SetAt(b, first(todo), Stone(s.col, gid1)),
                          todo \ {first(todo)}, gid1)
             ELSE Panic(b)

\* Lines 379-380: group gid2 leaves the table and is absorbed by gid1.
\* torn collects the points whose removal depended on the iterator.
absorb_group(b, gid1, gid2) ==
    IF b.fault THEN b
    ELSE [b EXCEPT !.groups =
             [k \in DOMAIN b.groups \ {gid2} |->
                 IF k = gid1
                 THEN absorb(b.groups[gid1], b.groups[gid2], b.skip)
                 ELSE b.groups[k]],
                   !.torn = @ \cup Later(b.groups[gid1], b.groups[gid2])]

\* Lines 373-380 with gid1 and gid2 chosen.
fuse_into(b, gid1, gid2) ==
    absorb_group(relabel(b, b.groups[gid2].stones, gid1), gid1, gid2)

fuse_groups(b, p1, p2) ==
    LET s1 == At(b, p1)
        s2 == At(b, p2)
    IN  IF ~(s1.kind = "Stone" /\ s2.kind = "Stone" /\ s1.gid # s2.gid) THEN b
        ELSE IF ~HasGroup(b, s1.gid) \/ ~HasGroup(b, s2.gid) THEN Panic(b)
        ELSE IF stone_count(b.groups[s1.gid]) > stone_count(b.groups[s2.gid])
        THEN fuse_into(b, s1.gid, s2.gid)
        ELSE fuse_into(b, s2.gid, s1.gid)

\* ----------------------------------------------------- Board::split_group
\* The neighbour callback of lines 254-263 and 271-280: a neighbour still
\* in oldstones is pushed on to_loop and leaves oldstones, any other
\* neighbour that is Empty becomes a liberty of the new group.
RECURSIVE visit(_, _, _, _, _)
visit(b, oldstones, to_loop, newgid, ns) ==
    IF ns = <<>> THEN [b |-> b, oldstones |-> oldstones, to_loop |-> to_loop]
    ELSE IF Head(ns) \in oldstones
    THEN visit(b, oldstones \ {Head(ns)}, Append(to_loop, Head(ns)), newgid,
               Tail(ns))
    ELSE IF At(b, Head(ns)).kind = "Empty"
    THEN visit([b EXCEPT !.groups[newgid] = add_liberty(@, Head(ns))],
               oldstones, to_loop, newgid, Tail(ns))
    ELSE visit(b, oldstones, to_loop, newgid, Tail(ns))

\* The loop of lines 264-281 on v = (board, oldstones, to_loop).
\* `let &mut mystones = &self.stones` binds mystones to a mutable COPY of
\* the grid (the pattern is & followed by the binding `mut mystones`,
\* matched against a shared reference), so the relabelling of line 266 is
\* written to the copy and self.stones keeps Stone(col, gid) for every
\* stone reached here; only the emptiness of a cell is read from the copy,
\* and that is the same in both.
RECURSIVE flood(_, _, _)
flood(v, gid, newgid) ==
    IF v.to_loop = <<>> THEN v
    ELSE LET p == v.to_loop[Len(v.to_loop)]
             s == At(v.b, p)
         IN  IF ~(s.kind = "Stone" /\ s.gid = gid)
             THEN [v EXCEPT !.b = Panic(@)]
             ELSE flood(visit([v.b EXCEPT !.groups[newgid] = add_stone(@, p)],
                              v.oldstones,
                              SubSeq(v.to_loop, 1, Len(v.to_loop) - 1),
                              newgid, loop_over_neighbours(p, v.b.size)),
                        gid, newgid)

\* Lines 239-281 for the seed p and the id newgid of its new group.
split_seed(b, oldstones, gid, newgid, p) ==
    flood(visit([SetAt(b, p, Stone(At(b, p).col, newgid)) EXCEPT
                    !.groups = WithKey(@, newgid, add_stone(Group_new, p))],
                oldstones \ {p}, <<>>, newgid,
                loop_over_neighbours(p, b.size)),
          gid, newgid)

\* The loop of lines 236-282: one new group per connected part.
RECURSIVE split_loop(_, _, _)
split_rest(v, gid) == split_loop(v.b, v.oldstones, gid)
split_loop(b, oldstones, gid) ==
    IF b.fault \/ oldstones = {} THEN b
    ELSE LET s == At(b, first(oldstones))
         IN  IF ~(s.kind = "Stone" /\ s.gid = gid) THEN Panic(b)
             ELSE split_rest(split_seed(b, oldstones, gid, next_gid(b),
                                        first(oldstones)),
                             gid)

split_group(b, gid, unput) ==
    IF ~HasGroup(b, gid) THEN Panic(b)
    ELSE split_loop([SetAt(b, unput, Empty) EXCEPT
                        !.groups = WithoutKey(@, gid)],
                    b.groups[gid].stones \ {unput}, gid)

\* ------------------------------------------------------------ Board::undo
RECURSIVE put_stones(_, _, _)
put_stones(b, todo, s) ==
    IF todo = {} THEN b
    ELSE put_stones(SetAt(b, first(todo), s), todo \ {first(todo)}, s)

\* Lines 304-310: a removed group comes back under the id newgid, with the
\* undone point p as one more liberty.
restore_group(b, grp, newgid, removedcolor, p) ==
    [put_stones(b, grp.stones, Stone(removedcolor, newgid)) EXCEPT
        !.groups = WithKey(@, newgid, add_liberty(grp, p))]

\* Lines 303-311: the removed groups come back, each under a new id.
RECURSIVE restore_removed(_, _, _, _)
restore_removed(b, removed, removedcolor, p) ==
    IF b.fault \/ removed = <<>> THEN b
    ELSE restore_removed(
             restore_group(b, Head(removed), next_gid(b), removedcolor, p),
             Tail(removed), removedcolor, p)

\* Lines 312-326: the ko point is recomputed from the move that is now last.
check_last_ko(b) ==
    IF b.fault \/ b.history = <<>> THEN b
    ELSE LET m == b.history[Len(b.history)]
             s == At(b, <<m.move.x, m.move.y>>)
         IN  IF m.move.kind # "Put" THEN b
             ELSE IF s.kind # "Stone" THEN Panic(b)
             ELSE IF Len(m.removed) = 1 /\ stone_count(m.removed[1]) = 1
             THEN IF ~HasGroup(b, s.gid) THEN Panic(b)
                  ELSE IF liberty_count(b.groups[s.gid]) = 1
                  THEN [b EXCEPT !.current_ko = first(m.removed[1].stones)]
                  ELSE [b EXCEPT !.current_ko = <<0, 0>>]
             ELSE [b EXCEPT !.current_ko = <<0, 0>>]

\* Lines 292-327: the move m = Put(x, y), popped from the history of b, is
\* taken back.
undo_put(b, m) ==
    LET p == <<m.move.x, m.move.y>>
        s == At(b, p)
    IN  IF s.kind # "Stone" THEN Panic(b)
        ELSE check_last_ko(
                 restore_removed(split_group(b, s.gid, p), m.removed,
                                 IF m.player = White THEN Black ELSE White,
                                 p))

\* The call ends: it returns true unless it has panicked.
returns(b) == [b |-> b, ret |-> ~b.fault]

\* undo(): the board after the call and the value returned.
undo(b) ==
    IF b.history = <<>> THEN [b |-> b, ret |-> FALSE]
    ELSE IF b.history[Len(b.history)].move.kind = "Pass"
    THEN [b |-> [b EXCEPT !.history = SubSeq(@, 1, Len(@) - 1)], ret |-> TRUE]
    ELSE returns(undo_put([b EXCEPT !.history = SubSeq(@, 1, Len(@) - 1)],
                          b.history[Len(b.history)]))

\* ------------------------------------------------------------ Board::pass
pass(b, player) == [b EXCEPT !.history = Append(@, Move(player, Pass, <<>>))]

\* ------------------------------------------------------------ Board::play
\* Lines 406-416: the liberty p is taken from every neighbouring stone of
\* the other colour; the groups that die are collected in killed.
RECURSIVE kill_enemies(_, _, _, _, _)
kill_more(r, killed, ns, player, p) ==
    kill_enemies(r.b, killed \o r.grp, ns, player, p)
kill_enemies(b, killed, ns, player, p) ==
    IF b.fault \/ ns = <<>> THEN [b |-> b, killed |-> killed]
    ELSE LET s == At(b, Head(ns))
         IN  IF s.kind = "Stone" /\ s.col # player
             THEN kill_more(remove_liberty(b, Head(ns), p), killed, Tail(ns),
                            player, p)
             ELSE kill_enemies(b, killed, Tail(ns), player, p)

\* Lines 419-426: alive = alive || (the neighbour is Empty, or a stone of
\* the player whose group has more than one liberty).
RECURSIVE check_alive(_, _, _, _)
check_alive(b, ns, player, alive) ==
    IF ns = <<>> THEN [alive |-> alive, fault |-> FALSE]
    ELSE IF alive THEN check_alive(b, Tail(ns), player, TRUE)
    ELSE LET s == At(b, Head(ns))
         IN  IF s.kind = "Empty" THEN check_alive(b, Tail(ns), player, TRUE)
             ELSE IF s.col = player
             THEN IF HasGroup(b, s.gid)
                  THEN check_alive(b, Tail(ns), player,
                                   liberty_count(b.groups[s.gid]) > 1)
                  ELSE [alive |-> FALSE, fault |-> TRUE]
             ELSE check_alive(b, Tail(ns), player, FALSE)

\* Lines 436-441: every Empty neighbour is a liberty of the new group.
RECURSIVE add_liberties(_, _, _)
add_liberties(b, ns, gid) ==
    IF b.fault \/ ns = <<>> THEN b
    ELSE IF At(b, Head(ns)).kind = "Empty"
    THEN IF HasGroup(b, gid)
         THEN add_liberties([b EXCEPT !.groups[gid] = add_liberty(@, Head(ns))],
                            Tail(ns), gid)
         ELSE Panic(b)
    ELSE add_liberties(b, Tail(ns), gid)

\* Lines 443-448: the new stone is fused with each neighbour of its colour.
RECURSIVE fuse_neighbours(_, _, _, _)
fuse_neighbours(b, ns, player, p) ==
    IF b.fault \/ ns = <<>> THEN b
    ELSE LET s == At(b, Head(ns))
         IN  IF s.kind = "Stone" /\ s.col = player
             THEN fuse_neighbours(fuse_groups(b, p, Head(ns)), Tail(ns), player, p)
             ELSE fuse_neighbours(b, Tail(ns), player, p)

RECURSIVE count_stones(_)
count_stones(killed) ==
    IF killed = <<>> THEN 0
    ELSE stone_count(Head(killed)) + count_stones(Tail(killed))

\* Lines 449-455.
count_dead(b, killed, player) ==
    IF b.fault THEN b
    ELSE IF player = White
    THEN [b EXCEPT !.black_dead = @ + count_stones(killed)]
    ELSE [b EXCEPT !.white_dead = @ + count_stones(killed)]

\* As check_ko, with the ko point put on the capturing stone.
check_ko_on_capturer(b, killed, p) ==
    LET s == At(b, p)
    IN  IF b.fault THEN b
        ELSE IF s.kind # "Stone" THEN Panic(b)
        ELSE IF Len(killed) = 1 /\ stone_count(killed[1]) = 1
        THEN IF ~HasGroup(b, s.gid) THEN Panic(b)
             ELSE IF stone_count(b.groups[s.gid]) = 1
             THEN [b EXCEPT !.current_ko = p]
             ELSE [b EXCEPT !.current_ko = <<0, 0>>]
        ELSE [b EXCEPT !.current_ko = <<0, 0>>]

\* Lines 456-465.
check_ko(b, killed, p) ==
    LET s == At(b, p)
    IN  IF b.fault THEN b
        ELSE IF s.kind # "Stone" THEN Panic(b)
        ELSE IF Len(killed) = 1 /\ stone_count(killed[1]) = 1
        THEN IF ~HasGroup(b, s.gid) THEN Panic(b)
             ELSE IF stone_count(b.groups[s.gid]) = 1
             THEN [b EXCEPT !.current_ko = first(killed[1].stones)]
             ELSE [b EXCEPT !.current_ko = <<0, 0>>]
        ELSE [b EXCEPT !.current_ko = <<0, 0>>]

\* As save_history, without the push on the history.
save_history_lost(b, killed, player, p) ==
    IF b.fault THEN [b |-> b, ret |-> FALSE]
    ELSE [b |-> b, ret |-> TRUE]

\* Lines 466-472: the move enters the history and play returns true.
save_history(b, killed, player, p) ==
    IF b.fault THEN [b |-> b, ret |-> FALSE]
    ELSE [b |-> [b EXCEPT !.history =
                    Append(@, Move(player, Put(p[1], p[2]), killed))],
          ret |-> TRUE]

\* Lines 434-472: the move stands.
settle(b, killed, gid, player, p) ==
    save_history(
        check_ko(
            count_dead(
                fuse_neighbours(
                    add_liberties(b, loop_over_neighbours(p, b.size), gid),
                    loop_over_neighbours(p, b.size), player, p),
                killed, player),
            killed, p),
        killed, player, p)

\* Lines 417-472 on k = (board, killed) left by lines 406-416, a being the
\* outcome of the test of lines 419-426.
judge(k, a, gid, player, p) ==
    IF Len(k.killed) = 0 /\ a.fault THEN [b |-> Panic(k.b), ret |-> FALSE]
    ELSE IF Len(k.killed) = 0 /\ ~a.alive
    THEN [b |-> [SetAt(k.b, p, Empty) EXCEPT !.groups = WithoutKey(@, gid)],
          ret |-> FALSE]
    ELSE settle(k.b, k.killed, gid, player, p)

\* Lines 417-472 on k = (board, killed) left by lines 406-416.
survive(k, gid, player, p) ==
    IF k.b.fault THEN [b |-> k.b, ret |-> FALSE]
    ELSE judge(k,
               check_alive(k.b, loop_over_neighbours(p, k.b.size), player,
                           FALSE),
               gid, player, p)

\* Lines 400-472: the stone is put on p under the id gid.
put_stone(b, player, p, gid) ==
    survive(kill_enemies([SetAt(b, p, Stone(player, gid)) EXCEPT
                             !.groups = WithKey(@, gid, add_stone(Group_new, p))],
                         <<>>, loop_over_neighbours(p, b.size), player, p),
            gid, player, p)

\* As play, without the ko guard.
play_over_ko(b, player, p) ==
    IF At(b, p) # Empty THEN [b |-> b, ret |-> FALSE]
    ELSE put_stone(b, player, p, next_gid(b))

\* play(player, x, y) with p = (x, y): the board after the call and the
\* value returned.
play(b, player, p) ==
    IF At(b, p) # Empty \/ p = b.current_ko THEN [b |-> b, ret |-> FALSE]
    ELSE put_stone(b, player, p, next_gid(b))

\* ----------------------------------------------------------- Board::clear
clear(b) ==
    [b EXCEPT !.history = <<>>,
              !.groups = [k \in {} |-> Group_new],
              !.stones = [p \in DOMAIN b.stones |-> Empty]]

\* ---------------------------------------------------------- Board::resize
\* As resize, without the lower limit of the guard.
resize_any_below(b, newsize) ==
    IF newsize <= board_maxsize
    THEN [b |-> [clear(b) EXCEPT !.size = newsize], ret |-> TRUE]
    ELSE [b |-> b, ret |-> FALSE]

resize(b, newsize) ==
    IF newsize > 0 /\ newsize <= board_maxsize
    THEN [b |-> [clear(b) EXCEPT !.size = newsize], ret |-> TRUE]
    ELSE [b |-> b, ret |-> FALSE]

\* ---------------------------------------------------- randomplay::genmove
\* The points of the second search: x outermost, y innermost.
ScanOrder(n) ==
    [i \in 1..(n * n) |-> <<((i - 1) \div n) + 1, ((i - 1) % n) + 1>>]

\* Both loops call play on one point after the other and return the first
\* point on which it gives true; r is what the call on p has given.
RECURSIVE search(_, _, _)
searched(r, player, p, rest) ==
    IF r.b.fault THEN [b |-> r.b, move |-> Pass]
    ELSE IF r.ret THEN [b |-> r.b, move |-> Put(p[1], p[2])]
    ELSE search(r.b, player, rest)
search(b, player, points) ==
    IF points = <<>> THEN [b |-> b, move |-> Pass]
    ELSE searched(play(b, player, Head(points)), player, Head(points),
                  Tail(points))

\* genmove(goban, player), the generator giving the points draws: the board
\* after the call and the vertex returned.
genmove(b, player, draws) == search(b, player, draws \o ScanOrder(b.size))

\* ---------------------------------------------------------- state machine
VARIABLES stones, history, groups, size, white_dead, black_dead, current_ko,
          fault, last, pre, undos, played, moves

vars == <<stones, history, groups, size, white_dead, black_dead, current_ko,
          fault, last, pre, undos, played, moves>>

\* The board the program holds.
Board ==
    [stones |-> stones, history |-> history, groups |-> groups, size |-> size,
     white_dead |-> white_dead, black_dead |-> black_dead,
     current_ko |-> current_ko, fault |-> fault, skip |-> {}, torn |-> {}]

\* The call made last: its name, the value it returned, why (ok, occupied,
\* ko, suicide, empty, range, fault), the colour given, and for an undo
\* whether it directly follows an accepted play or pass.
Call(op, ret, why, player, after) ==
    [op |-> op, ret |-> ret, why |-> why, player |-> player, after |-> after]

\* pre is the board before the call made last; after an undo that directly
\* follows an accepted play or pass it is the board before that play or
\* pass, and after any other undo the board as it is.
\* undos counts the calls of undo.
\* played tells that the last call that succeeded (play or undo returning
\* true, pass, resize returning true) was a play.
\* moves counts the plays that returned true and the passes, less the undos
\* that returned true, since the board was constructed, cleared or resized.
Init ==
    /\ stones = Board_new.stones
    /\ history = Board_new.history
    /\ groups = Board_new.groups
    /\ size = Board_new.size
    /\ white_dead = Board_new.white_dead
    /\ black_dead = Board_new.black_dead
    /\ current_ko = Board_new.current_ko
    /\ fault = FALSE
    /\ last = Call("new", TRUE, "ok", "None", "none")
    /\ pre = Board_new
    /\ undos = 0
    /\ played = FALSE
    /\ moves = 0

\* The program holds board b after a call; after a panic it holds nothing
\* more than the flag.
Becomes(b) ==
    IF b.fault
    THEN /\ fault' = TRUE
         /\ UNCHANGED <<stones, history, groups, size, white_dead, black_dead,
                        current_ko>>
    ELSE /\ stones' = b.stones
         /\ history' = b.history
         /\ groups' = b.groups
         /\ size' = b.size
         /\ white_dead' = b.white_dead
         /\ black_dead' = b.black_dead
         /\ current_ko' = b.current_ko
         /\ fault' = FALSE

\* gen_range(1, size + 1): a point the generator can give.
InBoard(p) == p[1] <= size /\ p[2] <= size

WhyPlay(b, p, r) ==
    IF r.b.fault THEN "fault"
    ELSE IF r.ret THEN "ok"
    ELSE IF At(b, p) # Empty THEN "occupied"
    ELSE IF p = b.current_ko THEN "ko"
    ELSE "suicide"

\* play(c, x, y) has been called and has given r, the history holding at
\* most h moves.
PlayGives(r, c, p, h) ==
    /\ r.ret => Len(history) < h
    /\ r.b.white_dead <= MaxDead
    /\ r.b.black_dead <= MaxDead
    /\ Becomes(r.b)
    /\ last' = Call("play", r.ret, WhyPlay(Board, p, r), c, "none")
    /\ pre' = Board
    /\ played' = IF r.b.fault THEN FALSE ELSE (r.ret \/ played)
    /\ moves' = IF r.ret /\ ~r.b.fault THEN moves + 1 ELSE moves
    /\ UNCHANGED undos

\* Board b for a call during which the iterator of absorb does not reach
\* the points m.
Reaching(b, m) == [b EXCEPT !.skip = m]
\* The sets of points the iterator may not reach during a call, T being
\* the points on which the call in which it reaches none (skip = Cells)
\* depends on it: every fusion of that call has the largest liberty sets, so
\* T holds the points any other call can depend on. Cells stands for T.
Skips(T) == {Cells} \cup ((SUBSET T) \ {T})

\* play(c, x, y) with the iterator not reaching m; r is what the call gives
\* when it reaches none.
play_reaching(r, b, c, p, m) ==
    IF m = Cells THEN r ELSE play(Reaching(b, m), c, p)
PlayTried(r, c, p, h) ==
    \E m \in Skips(r.b.torn) :
        PlayGives(play_reaching(r, Board, c, p, m), c, p, h)

\* play(c, x, y) is called, with any point of the grid whatever the size.
DoPlay(c, p, h) ==
    /\ ~fault
    /\ PlayTried(play(Reaching(Board, Cells), c, p), c, p, h)

\* pass(c) is called.
DoPass(c, h) ==
    /\ ~fault
    /\ Len(history) < h
    /\ Becomes(pass(Board, c))
    /\ last' = Call("pass", TRUE, "ok", c, "none")
    /\ pre' = Board
    /\ played' = FALSE
    /\ moves' = moves + 1
    /\ UNCHANGED undos

\* undo() has been called and has given r; follows tells that it directly
\* follows an accepted play or pass.
UndoGives(r, follows) ==
    /\ Becomes(r.b)
    /\ last' = Call("undo", r.ret,
                    IF r.b.fault THEN "fault"
                    ELSE IF r.ret THEN "ok" ELSE "empty",
                    "None", IF follows THEN last.op ELSE "none")
    /\ pre' = IF follows THEN pre ELSE IF r.b.fault THEN Board ELSE r.b
    /\ played' = IF r.b.fault \/ r.ret THEN FALSE ELSE played
    /\ moves' = IF r.ret /\ ~r.b.fault THEN moves - 1 ELSE moves

\* undo() is called, for at most the u-th time.
DoUndo(u) ==
    /\ ~fault
    /\ undos < u
    /\ undos' = undos + 1
    /\ UndoGives(undo(Board), last.ret /\ last.op \in {"play", "pass"})

\* resize(n) has been called and has given r.
ResizeGives(r) ==
    /\ Becomes(r.b)
    /\ last' = Call("resize", r.ret, IF r.ret THEN "ok" ELSE "range",
                    "None", "none")
    /\ pre' = Board
    /\ played' = IF r.b.fault \/ r.ret THEN FALSE ELSE played
    /\ moves' = IF r.ret /\ ~r.b.fault THEN 0 ELSE moves
    /\ UNCHANGED undos

\* resize(n) is called.
DoResize(n) ==
    /\ ~fault
    /\ ResizeGives(resize(Board, n))

\* clear() is called.
DoClear ==
    /\ ~fault
    /\ Becomes(clear(Board))
    /\ last' = Call("clear", TRUE, "ok", "None", "none")
    /\ pre' = Board
    /\ played' = FALSE
    /\ moves' = 0
    /\ UNCHANGED undos

\* genmove(board, c) has been called and has given r; the call made last
\* also holds the vertex returned, and ret tells that it is a Put.
GenmoveGives(r, c, h) ==
    /\ r.move # Pass => Len(history) < h
    /\ r.b.white_dead <= MaxDead
    /\ r.b.black_dead <= MaxDead
    /\ Becomes(r.b)
    /\ last' = [op |-> "genmove", ret |-> r.move # Pass,
                why |-> IF r.b.fault THEN "fault" ELSE "ok",
                player |-> c, after |-> "none", move |-> r.move]
    /\ pre' = Board
    /\ played' = IF r.b.fault THEN FALSE ELSE (r.move # Pass \/ played)
    /\ moves' = IF r.move # Pass /\ ~r.b.fault THEN moves + 1 ELSE moves
    /\ UNCHANGED undos

\* The whole board lies on the grid of the model.
OnGrid == size <= AreaX /\ size <= AreaY

\* genmove(board, c) is called and the generator gives the points draws.
genmove_reaching(r, b, c, draws, m) ==
    IF m = Cells THEN r ELSE genmove(Reaching(b, m), c, draws)
GenmoveTried(r, c, draws, h) ==
    \E m \in Skips(r.b.torn) :
        GenmoveGives(genmove_reaching(r, Board, c, draws, m), c, h)
DoGenmove(c, draws, h) ==
    /\ ~fault
    /\ OnGrid
    /\ GenmoveTried(genmove(Reaching(Board, Cells), c, draws), c, draws, h)

\* In a game the colour to move is the other than that of the last move of the
\* history; either colour may start.
Turn(c) == IF history = <<>> THEN TRUE ELSE history[Len(history)].player # c
Passes == Cardinality({i \in 1..Len(history) : history[i].move.kind = "Pass"})

\* ------------------------------------------------- Spec: any calls, short
FreePlay(c, p) == p[1] <= FreeX /\ DoPlay(c, p, MaxHist)
FreePass(c) == Passes < MaxPass /\ DoPass(c, MaxHist)
FreeUndo == DoUndo(MaxUndo)

Next ==
    \/ \E c \in Colour, p \in Cells : FreePlay(c, p)
    \/ \E c \in Colour : FreePass(c)
    \/ FreeUndo

Spec == Init /\ [][Next]_vars

\* -------------------------------------------- Game: alternating colours

GameSize(n) == history = <<>> /\ DoResize(n)
GamePlay(c, p) == Turn(c) /\ DoPlay(c, p, MaxGameHist)
GameUndoes == DoUndo(MaxGameUndo)

GameNext ==
    \/ \E n \in {0, SmallSize, board_maxsize + 1} : GameSize(n)
    \/ \E c \in Colour, p \in Cells : GamePlay(c, p)
    \/ GameUndoes

Game == Init /\ [][GameNext]_vars

\* ------------------------------- Session: every call, shorter histories
SessionPlay(c, p) == p[1] <= FreeX /\ DoPlay(c, p, MaxSessionHist)
SessionPass(c) == Passes < MaxPass /\ DoPass(c, MaxSessionHist)
SessionClear == history # <<>> /\ DoClear
SessionSize(n) == DoResize(n)

SessionNext ==
    \/ \E c \in Colour, p \in Cells : SessionPlay(c, p)
    \/ \E c \in Colour : SessionPass(c)
    \/ SessionClear
    \/ \E n \in {0, SmallSize, board_maxsize + 1} : SessionSize(n)

Session == Init /\ [][SessionNext]_vars

\* ------------------------------------ Bot: a small board and the generator
\* The generator gives p for the first try and q for the others.
Draws(p, q) == [i \in 1..MaxTries |-> IF i = 1 THEN p ELSE q]

BotSize(n) == history = <<>> /\ size # n /\ DoResize(n)
BotPlay(c, p) == OnGrid /\ p[1] <= FreeX /\ DoPlay(c, p, MaxBotHist)
BotGenmove(c, p, q) ==
    InBoard(p) /\ InBoard(q) /\ DoGenmove(c, Draws(p, q), MaxBotHist)
BotUndo == DoUndo(MaxBotUndo)

BotNext ==
    \/ \E n \in {SmallSize} : BotSize(n)
    \/ \E c \in Colour, p \in Cells : BotPlay(c, p)
    \/ \E c \in Colour, p \in Cells, q \in Cells : BotGenmove(c, p, q)
    \/ BotUndo

Bot == Init /\ [][BotNext]_vars

\* ---------------------------------------------------------------- claims
Other(c) == IF c = White THEN Black ELSE White
Adjacent(p, q) ==
    \/ (p[1] = q[1] /\ (p[2] = q[2] + 1 \/ q[2] = p[2] + 1))
    \/ (p[2] = q[2] /\ (p[1] = q[1] + 1 \/ q[1] = p[1] + 1))
\* Every point of the board next to a stone of S, on a board of size n.
Around(S, n) ==
    {q \in (1..(AreaX + 1)) \X (1..(AreaY + 1)) :
        q[1] <= n /\ q[2] <= n /\ \E p \in S : Adjacent(p, q)}
\* The empty points next to a stone of S on board b.
EmptyAround(b, S) == {q \in Around(S, b.size) : At(b, q).kind = "Empty"}
ColourAt(b, p) == At(b, p).col
Partition(b) == {b.groups[g].stones : g \in DOMAIN b.groups}
StonesOf(removed) == UNION {removed[i].stones : i \in 1..Len(removed)}
Top == history[Len(history)]

\* The call made last is a play that was accepted.
Played == last.op = "play" /\ last.ret
\* The call made last is a play that was accepted and removed stones.
Captured == Played /\ Top.removed # <<>>
\* The call made last is an undo called right after an accepted play or pass.
RoundTrip == last.op = "undo" /\ last.after \in {"play", "pass"}

\* C1: a play that returns true, or a pass, followed at once by undo leaves
\* every intersection with the colour or emptiness it had before and the
\* stones in the same groups (as sets of coordinates).
C1_Invertible ==
    RoundTrip =>
        /\ ~fault
        /\ last.ret
        /\ \A p \in Cells : ColourAt(Board, p) = ColourAt(pre, p)
        /\ Partition(Board) = Partition(pre)

\* C2: a play rejected as suicide leaves grid, groups (stones and
\* liberties), history, ko and dead counters as they were before the call.
C2_SuicideNoEffect ==
    (last.op = "play" /\ last.why = "suicide") => Board = pre

\* C3: after a play that captures, every vacated coordinate is a liberty of
\* every group of the table that has a stone next to it.
C3_LibertiesReturned ==
    Captured =>
        \A v \in StonesOf(Top.removed) : \A g \in DOMAIN groups :
            (\E s \in groups[g].stones : Adjacent(s, v))
                => v \in groups[g].liberties

\* C4: after a play that returns true, every group of the table has a
\* liberty in its liberty set.
C4_NoZeroLiberty ==
    Played => \A g \in DOMAIN groups : liberty_count(groups[g]) > 0

\* C5: between calls the liberty set of every group is exactly the set of
\* empty intersections next to one of its stones.
C5_LibertiesExact ==
    ~fault => \A g \in DOMAIN groups :
                  groups[g].liberties = EmptyAround(Board, groups[g].stones)

\* C6: grid and group table agree: every stone of the grid has its id in
\* the table and lies in that group's stones and in no other's, every stone
\* of a group is on the grid under the group's id, a group has one colour
\* and at least one stone.
C6_GridGroupsAgree ==
    ~fault =>
        /\ \A p \in Cells : stones[p].kind = "Stone" =>
              /\ stones[p].gid \in DOMAIN groups
              /\ \A g \in DOMAIN groups :
                    (p \in groups[g].stones) <=> (g = stones[p].gid)
        /\ \A g \in DOMAIN groups :
              /\ groups[g].stones # {}
              /\ \A p \in groups[g].stones :
                    /\ p \in Cells
                    /\ stones[p].kind = "Stone"
                    /\ stones[p].gid = g
              /\ \A p, q \in groups[g].stones :
                    ColourAt(Board, p) = ColourAt(Board, q)

\* C7: a play followed at once by undo leaves both dead-stone counters at
\* the values they had before the play.
C7_UndoRestoresDead ==
    (RoundTrip /\ last.after = "play" /\ last.ret) =>
        /\ black_dead = pre.black_dead
        /\ white_dead = pre.white_dead

\* C8: a play or pass followed at once by undo leaves the ko point as it
\* was before the play or pass.
C8_UndoRestoresKo ==
    (RoundTrip /\ last.ret) =>
        get_current_ko(Board) = get_current_ko(pre)

\* Group g of board b is of the colour other than c and p is the only empty
\* intersection next to its stones: a stone of c on p takes its last liberty.
LastLiberty(b, g, c, p) ==
    /\ b.groups[g].stones # {}
    /\ \A s \in b.groups[g].stones :
          At(b, s).kind = "Stone" /\ At(b, s).col = Other(c)
    /\ EmptyAround(b, b.groups[g].stones) = {p}
\* The groups whose last liberty the play made last has taken, and their
\* stones.
Dying ==
    {g \in DOMAIN pre.groups :
        LastLiberty(pre, g, Top.player, <<Top.move.x, Top.move.y>>)}
Gone == UNION {pre.groups[g].stones : g \in Dying}

\* C9: after a play by c that took the last liberty of groups of the other
\* colour, every stone of every such group is Empty and in no group of the
\* table, the dead counter of the other colour has grown by the number of
\* stones removed and the counter of c is unchanged.
C9_CaptureCounts ==
    (Played /\ ~fault /\ Dying # {}) =>
        /\ \A v \in Gone :
              /\ stones[v].kind = "Empty"
              /\ \A g \in DOMAIN groups : v \notin groups[g].stones
        /\ IF Top.player = Black
           THEN /\ white_dead = pre.white_dead + Cardinality(Gone)
                /\ black_dead = pre.black_dead
           ELSE /\ black_dead = pre.black_dead + Cardinality(Gone)
                /\ white_dead = pre.white_dead
\* A play has captured two stones or more.
C9_Witness ==
    /\ Captured
    /\ Cardinality(Gone) >= 2
    /\ Gone = StonesOf(Top.removed)

\* The stone of the move made last on board b.
TopPoint(b) ==
    <<b.history[Len(b.history)].move.x, b.history[Len(b.history)].move.y>>
\* The move made last captured exactly one stone and its stone is a group
\* of one stone with exactly one liberty, by its liberty set or by the
\* empty intersections next to it.
KoShape(b) ==
    /\ b.history # <<>>
    /\ LET m == b.history[Len(b.history)]
           p == <<m.move.x, m.move.y>>
       IN  /\ m.move.kind = "Put"
           /\ Len(m.removed) = 1
           /\ stone_count(m.removed[1]) = 1
           /\ At(b, p).kind = "Stone"
           /\ HasGroup(b, At(b, p).gid)
           /\ b.groups[At(b, p).gid].stones = {p}
           /\ \/ Cardinality(EmptyAround(b, {p})) = 1
              \/ liberty_count(b.groups[At(b, p).gid]) = 1
KoPoint(b) == first(b.history[Len(b.history)].removed[1].stones)

\* C10: when the last call that succeeded is a play that captured exactly
\* one stone at K and left the capturing stone a group of one stone with
\* exactly one liberty, a play of the other colour at K returns false and
\* changes nothing.
C10_KoBlocks ==
    (played /\ ~fault /\ KoShape(Board)) =>
        play(Board, Other(Top.player), KoPoint(Board))
            = [b |-> Board, ret |-> FALSE]
\* The other colour has played at K right after such a capture, K being the
\* only empty intersection next to the capturing stone, and was refused.
C10_Witness ==
    /\ last.op = "play"
    /\ last.why = "ko"
    /\ ~last.ret
    /\ played
    /\ KoShape(pre)
    /\ EmptyAround(pre, {TopPoint(pre)}) = {KoPoint(pre)}
    /\ last.player = Other(Top.player)
    /\ pre.current_ko = KoPoint(pre)
    /\ Board = pre

\* C11: when a ko point K is active, one play that returns true or one pass
\* leaves a ko point other than K (none at all after a pass), so that a play
\* at K is no longer stopped by the ko guard.
C11_KoLifted ==
    (~fault /\ pre.current_ko # <<0, 0>> /\ (Played \/ last.op = "pass")) =>
        /\ get_current_ko(Board) # <<pre.current_ko>>
        /\ last.op = "pass" => get_current_ko(Board) = <<>>

\* C12: a play on an occupied intersection or on the ko point returns false
\* and leaves grid, group table, history, ko and dead counters as they were.
C12_RejectNoEffect ==
    ~fault =>
        /\ \A c \in Colour, p \in Cells :
              (At(Board, p) # Empty \/ p = current_ko) =>
                  play(Board, c, p) = [b |-> Board, ret |-> FALSE]
        /\ (last.op = "play" /\ last.why \in {"occupied", "ko"}) =>
              ~last.ret /\ Board = pre
\* A play on the ko point, empty and next to stones, has been refused.
C12_Witness ==
    /\ last.op = "play"
    /\ last.why = "ko"
    /\ ~last.ret
    /\ current_ko # <<0, 0>>
    /\ At(Board, current_ko) = Empty
    /\ \E q \in Cells : Adjacent(q, current_ko) /\ At(Board, q) # Empty
    /\ Board = pre

\* C13: after clear() every intersection is Empty, the group table and the
\* history are empty, both dead counters are 0, there is no ko point, a
\* play on any point of the board returns true, and the size is as before.
C13_ClearResets ==
    (last.op = "clear" /\ ~fault) =>
        /\ \A p \in Cells : stones[p] = Empty
        /\ DOMAIN groups = {}
        /\ history = <<>>
        /\ black_dead = 0
        /\ white_dead = 0
        /\ get_current_ko(Board) = <<>>
        /\ \A c \in Colour, p \in Cells :
              InBoard(p) => play(Board, c, p).ret
        /\ size = pre.size

\* Board b has no stone on the grid, no group in the table and an empty
\* history.
Bare(b) ==
    /\ \A p \in Cells : b.stones[p] = Empty
    /\ DOMAIN b.groups = {}
    /\ b.history = <<>>
\* resize(n) called on board b has given r as the claim requires.
ResizeAsClaimed(b, n, r) ==
    IF n \in 1..board_maxsize
    THEN r.ret /\ r.b.size = n /\ Bare(r.b)
    ELSE r = [b |-> b, ret |-> FALSE]

\* C14: resize(n) with n outside 1..25 returns false and leaves size, grid,
\* groups, history, ko and counters as they were; with n in 1..25 it returns
\* true, sets the size to n and leaves no stone, no group and an empty
\* history.
C14_ResizeGuard ==
    ~fault =>
        /\ \A n \in 0..(board_maxsize + 1) :
              ResizeAsClaimed(Board, n, resize(Board, n))
        /\ last.op = "resize" =>
              IF last.ret
              THEN size \in 1..board_maxsize /\ Bare(Board)
              ELSE Board = pre
\* A board with stones and history has been resized to SmallSize.
C14_Witness ==
    /\ last.op = "resize"
    /\ last.ret
    /\ size = SmallSize
    /\ pre.size # SmallSize
    /\ pre.history # <<>>
    /\ \E p \in Cells : pre.stones[p] # Empty
    /\ Bare(Board)

\* undo() called on board b has given r as the claim requires: false and no
\* change on an empty history, otherwise true and the last entry removed.
UndoAsClaimed(b, r) ==
    IF b.history = <<>>
    THEN r = [b |-> b, ret |-> FALSE]
    ELSE r.b.fault
         \/ (r.ret /\ r.b.history = SubSeq(b.history, 1, Len(b.history) - 1))

\* C15: as long as the program has not panicked, the length of the history
\* is the number of plays that returned true and passes, less the undos that
\* returned true, since construction, clear or resize; a rejected play adds
\* no entry and an accepted one adds exactly its own; undo returns false
\* exactly on an empty history, changing nothing, and otherwise removes
\* exactly the last entry.
C15_HistoryLength ==
    ~fault =>
        /\ Len(history) = moves
        /\ (last.op = "play" /\ ~last.ret) => history = pre.history
        /\ Played =>
              /\ history = Append(pre.history, Top)
              /\ Top.move.kind = "Put"
              /\ Top.player = last.player
        /\ last.op = "pass" =>
              history = Append(pre.history, Move(last.player, Pass, <<>>))
        /\ UndoAsClaimed(Board, undo(Board))
\* An undo has returned true and left two moves or more in the history,
\* a pass among them.
C15_Witness ==
    /\ last.op = "undo"
    /\ last.ret
    /\ ~fault
    /\ moves >= 2
    /\ Len(history) = moves
    /\ Passes >= 1

\* The group of the table that holds the stone of the move made last.
TopGroup == groups[At(Board, TopPoint(Board)).gid]

\* C16: after a play that returns true the ko point is the coordinate of the
\* captured stone if the move captured exactly one stone and the group of
\* the stone played has exactly one stone and exactly one liberty, and there
\* is no ko point in every other case.
C16_KoOnPlay ==
    (Played /\ ~fault) =>
        IF /\ Cardinality(StonesOf(Top.removed)) = 1
           /\ stone_count(TopGroup) = 1
           /\ liberty_count(TopGroup) = 1
        THEN get_current_ko(Board) = <<KoPoint(Board)>>
        ELSE get_current_ko(Board) = <<>>

\* The move now last on board b is a Put that captured a single group of
\* one stone, and the group now at its coordinate has exactly one liberty.
KoAgain(b) ==
    /\ b.history # <<>>
    /\ LET m == b.history[Len(b.history)]
       IN  /\ m.move.kind = "Put"
           /\ Len(m.removed) = 1
           /\ stone_count(m.removed[1]) = 1
           /\ At(b, TopPoint(b)).kind = "Stone"
           /\ HasGroup(b, At(b, TopPoint(b)).gid)
           /\ liberty_count(b.groups[At(b, TopPoint(b)).gid]) = 1

\* C17: after an undo that returns true the ko point is the coordinate of
\* the stone captured by the move now last if that move is a Put that
\* captured a single group of one stone and the group now at its coordinate
\* has exactly one liberty; in every other case (the move now last is a
\* Pass, the history is empty, the undone move was a Pass) there is no ko
\* point.
C17_KoOnUndo ==
    (last.op = "undo" /\ last.ret /\ ~fault) =>
        IF KoAgain(Board)
        THEN get_current_ko(Board) = <<KoPoint(Board)>>
        ELSE get_current_ko(Board) = <<>>

\* The chain of p on board b: the stones of the colour of p joined to p by
\* orthogonally adjacent stones of that colour, read from the grid.
RECURSIVE Grow(_, _, _)
Grow(b, S, c) ==
    IF \E q \in Cells \ S :
           At(b, q).kind = "Stone" /\ At(b, q).col = c
           /\ \E s \in S : Adjacent(s, q)
    THEN Grow(b, S \cup {q \in Cells :
                            At(b, q).kind = "Stone" /\ At(b, q).col = c
                            /\ \E s \in S : Adjacent(s, q)}, c)
    ELSE S
Chain(b, p) == Grow(b, {p}, At(b, p).col)
\* The stones a stone of c put on p takes from board b: the chains of the
\* other colour next to p that have no empty intersection next to them but
\* p.
ShouldFall(b, c, p) ==
    UNION {Chain(b, q) : q \in {n \in Cells :
                                  /\ Adjacent(n, p)
                                  /\ At(b, n).kind = "Stone"
                                  /\ At(b, n).col = Other(c)
                                  /\ EmptyAround(b, Chain(b, n)) \subseteq {p}}}

\* C18: the stones removed by a play that returns true are exactly those of
\* the chains of the other colour next to the stone played that have no
\* empty intersection next to them once the stone is placed.
C18_CapturesFollowBoard ==
    (Played /\ ~fault) =>
        StonesOf(Top.removed) = ShouldFall(pre, Top.player, TopPoint(Board))

\* The stones of S joined to those of R by orthogonally adjacent stones of S.
RECURSIVE Spread(_, _)
Spread(S, R) ==
    IF \E q \in S \ R : \E r \in R : Adjacent(r, q)
    THEN Spread(S, R \cup {q \in S : \E r \in R : Adjacent(r, q)})
    ELSE R
\* S is a single orthogonally connected set.
Connected(S) == S = {} \/ Spread(S, {first(S)}) = S

\* C19: two orthogonally adjacent stones of the same colour carry the same
\* group id, and the stones of every group form a single orthogonally
\* connected set.
C19_GroupsAreChains ==
    ~fault =>
        /\ \A p, q \in Cells :
              (/\ Adjacent(p, q)
               /\ stones[p].kind = "Stone"
               /\ stones[q].kind = "Stone"
               /\ stones[p].col = stones[q].col)
                  => stones[p].gid = stones[q].gid
        /\ \A g \in DOMAIN groups : Connected(groups[g].stones)

\* C20: whatever calls are made with coordinates of the board, no
\* unreachable!() branch is executed and no group is looked up under an id
\* that the table does not hold: the program never panics.
C20_NoFault == fault = FALSE

\* The smallest non-negative integer that is not a key of the table.
SmallestFree(keys) ==
    CHOOSE n \in 0..Cardinality(keys) :
        n \notin keys /\ \A k \in 0..(n - 1) : k \in keys
\* The id next_gid() hands out is not a key of the table.
Unused == next_gid(Board) \notin DOMAIN groups

\* C22: for every reachable group table next_gid() returns the smallest
\* non-negative integer that is not a key of the table (0 as soon as it is
\* free, even while other groups live), and never a key in use.
C22_SmallestFreeId ==
    /\ next_gid(Board) = SmallestFree(DOMAIN groups)
    /\ Unused

\* The call made last is a genmove that returned.
Generated == last.op = "genmove" /\ ~fault
\* play is rejected at every point of board b.
NoMove(b, c) ==
    \A p \in Cells :
        (p[1] <= b.size /\ p[2] <= b.size) => ~play(b, c, p).ret

\* C21: a call of genmove appends exactly one entry to the history, the
\* Put it returns or a Pass when it returns Pass, so that an undo called
\* right after it gives back the history as it was before the call; it
\* returns Pass only when play is rejected at every point of the board.
C21_GenmoveRecorded ==
    Generated =>
        /\ Len(history) = Len(pre.history) + 1
        /\ SubSeq(history, 1, Len(pre.history)) = pre.history
        /\ Top.move = last.move
        /\ Top.player = last.player
        /\ undo(Board).b.fault \/ undo(Board).b.history = pre.history
        /\ last.move = Pass => NoMove(pre, last.player)

\* The part of C21 on a returned Put.
C21_PutRecorded == (Generated /\ last.move # Pass) => C21_GenmoveRecorded
\* genmove returns Pass only when play is rejected at every point.
C21_PassOnlyWhenStuck ==
    (Generated /\ last.move = Pass) => NoMove(pre, last.player)

====
